---- MODULE Spec2Model ----
(***************************************************************************)
(* Model of project/brute_force_letter_solver.py: the greedy-seeded,       *)
(* time-bounded branch-and-bound search find_best_cover, its filter stage  *)
(* filter_words and the command-line path main -> solve.                   *)
(*                                                                         *)
(* A word is a sequence of one-letter strings.  A Counter is a function    *)
(* from Letters to naturals (a Counter reads 0 for a missing key).         *)
(* Python list indices are 0-based: words[i] of the code is words[i+1].    *)
(***************************************************************************)
EXTENDS Integers, Sequences, FiniteSets, TLC

\* ---- bounds of the model ------------------------------------------------
MaxCount == 2          \* occurrences of one letter in the pool
MaxCands == 3          \* length of the word list handed in
MaxClock == 2          \* clock readings range over 0..MaxClock

\* ---- program constants --------------------------------------------------
MIN_WORD_LEN == 2
TIMEOUT_SEC == 15

Letters == {"A", "T"}
LowerCase == {"a", "t"}

ALLOWED_TWO_LETTERS == {<<"A", "A">>, <<"A", "T">>, <<"T", "A">>}

\* ---- input domains ------------------------------------------------------
Dictionary == {<<"A">>, <<"A", "T">>, <<"T", "A">>, <<"T", "A", "T">>}

RECURSIVE SeqsUpTo(_, _)
SeqsUpTo(S, k) ==
  IF k = 0 THEN {<<>>}
  ELSE LET shorter == SeqsUpTo(S, k - 1)
       IN shorter \cup {Append(s, x) : s \in shorter, x \in S}

WordLists == SeqsUpTo(Dictionary, MaxCands)

\* timeout of a direct call; --timeout SEC of the command line
Timeouts == {-1, 0, 1, TIMEOUT_SEC}
CliTimeouts == {1, TIMEOUT_SEC}

RECURSIVE Repeat(_, _)
Repeat(ch, k) == IF k = 0 THEN <<>> ELSE <<ch>> \o Repeat(ch, k - 1)

UpperStrings == {Repeat("A", a) \o Repeat("T", t) : a \in 0..MaxCount, t \in 0..MaxCount}
LowerStrings == {Repeat("a", a) \o Repeat("t", t) : a \in 0..MaxCount, t \in 0..MaxCount}

\* ---- pure helpers -------------------------------------------------------
Min(S) == CHOOSE x \in S : \A y \in S : x <= y

RECURSIVE SumLen(_)
SumLen(ws) == IF ws = <<>> THEN 0 ELSE Len(Head(ws)) + SumLen(Tail(ws))

\* str.upper()
upper(s) ==
  [k \in DOMAIN s |-> IF s[k] = "a" THEN "A" ELSE IF s[k] = "t" THEN "T" ELSE s[k]]

\* collections.Counter(iterable)
Counter(w) == [ch \in Letters |-> Cardinality({k \in DOMAIN w : w[k] = ch})]

\* sum(counts.values())
RECURSIVE SumOver(_, _)
SumOver(counts, L) ==
  IF L = {} THEN 0
  ELSE LET ch == CHOOSE x \in L : TRUE IN counts[ch] + SumOver(counts, L \ {ch})

Total(counts) == SumOver(counts, Letters)

\* mutant: any() where the code has all()
canAfford_Any(wc, counts) == \E ch \in Letters : wc[ch] > 0 /\ wc[ch] <= counts[ch]

\* all(wc[ch] <= counts[ch] for ch in wc)
canAfford(wc, counts) == \A ch \in Letters : wc[ch] > 0 => wc[ch] <= counts[ch]

\* mutant: every letter of the word is taken off once, whatever its multiplicity
subtract_Once(counts, wc) ==
  [ch \in Letters |-> counts[ch] - (IF wc[ch] > 0 THEN 1 ELSE 0)]

\* for ch, c in wc.items(): counts[ch] -= c
subtract(counts, wc) == [ch \in Letters |-> counts[ch] - wc[ch]]

\* occurrences of every letter over a list of words
RECURSIVE Usage(_)
Usage(ws) ==
  IF ws = <<>> THEN [ch \in Letters |-> 0]
  ELSE LET u == Usage(Tail(ws)) c == Counter(Head(ws))
       IN [ch \in Letters |-> c[ch] + u[ch]]

\* mutant: a sort that puts a word before the earlier words of its length
InsertDesc_Unstable(s, w) ==
  LET k == Cardinality({j \in DOMAIN s : Len(s[j]) > Len(w)})
  IN SubSeq(s, 1, k) \o <<w>> \o SubSeq(s, k + 1, Len(s))

\* mutant: the sort without reverse=True, shortest first
InsertDesc_Ascending(s, w) ==
  LET k == Cardinality({j \in DOMAIN s : Len(s[j]) <= Len(w)})
  IN SubSeq(s, 1, k) \o <<w>> \o SubSeq(s, k + 1, Len(s))

\* sorted(words, key=len, reverse=True): stable, longest first
InsertDesc(s, w) ==
  LET k == Cardinality({j \in DOMAIN s : Len(s[j]) >= Len(w)})
  IN SubSeq(s, 1, k) \o <<w>> \o SubSeq(s, k + 1, Len(s))

RECURSIVE sorted(_)
sorted(ws) ==
  IF ws = <<>> THEN <<>>
  ELSE InsertDesc(sorted(SubSeq(ws, 1, Len(ws) - 1)), ws[Len(ws)])

\* rem_len[i] = rem_len[i + 1] + len(words[i]), rem_len[n] = 0
RECURSIVE SuffixLen(_, _)
SuffixLen(ws, i) == IF i >= Len(ws) THEN 0 ELSE SuffixLen(ws, i + 1) + Len(ws[i + 1])

RemLen(ws) == [i \in 0..Len(ws) |-> SuffixLen(ws, i)]

\* is_valid_word: no spell checker is installed, every word is accepted
is_valid_word(w) == TRUE

\* filter_words
keep(w, counts) ==
  /\ ~(Len(w) < MIN_WORD_LEN)
  /\ ~(Len(w) = 2 /\ w \notin ALLOWED_TWO_LETTERS)
  /\ canAfford(Counter(w), counts)
  /\ is_valid_word(w)

filter_words(ws, counts) == SelectSeq(ws, LAMBDA w : keep(w, counts))

\* ---- state --------------------------------------------------------------
VARIABLES
  argv,           \* what the caller hands in: via, letters, words, timeout
  pc,             \* "idle", "dfs" (inside find_best_cover) or "done"
  calls,          \* invocations started so far
  prev,           \* return value and deadline flag of the previous invocation
  now,            \* last reading of time.time()
  candidates,     \* the caller's list object passed as words
  letter_counts,  \* the caller's Counter object passed as letter_counts
  words,          \* the local, sorted list
  deadline,
  best,           \* best["used"] and the list object best["subset"] refers to
  bestList,       \* contents of the list object created for best["subset"]
  chosen,         \* contents of the list object chosen0, shared by all frames
  rem_len,
  stack,          \* dfs frames, innermost last
  result,         \* the pair find_best_cover returned
  output,         \* what main printed
  seedBest,       \* best as the greedy seed left it
  expired,        \* some node saw the clock past the deadline
  explored,       \* some node passed the deadline check
  pushed          \* some word was appended to chosen by dfs

vars == <<argv, pc, calls, prev, now, candidates, letter_counts, words, deadline,
          best, bestList, chosen, rem_len, stack, result, output, seedBest,
          expired, explored, pushed>>

NoResult == [subset |-> <<>>, used |-> -1]
NoOutput == [best_set |-> <<>>, unused |-> -1]

n == Len(words)

\* the list object best["subset"] refers to
BestSubset == IF best.subset = "chosen" THEN chosen ELSE bestList

\* mutant: the clock may be set back between two readings
Tick_Backward(t) == {t2 \in (t - 1)..(t + 1) : 0 <= t2 /\ t2 <= MaxClock}

\* a reading of time.time(): it may repeat the previous reading
Tick(t) == {t2 \in t..(t + 1) : t2 <= MaxClock}

Init ==
  /\ argv \in [via : {"direct"}, letters : UpperStrings,
               words : WordLists, timeout : Timeouts]
             \cup [via : {"main"}, letters : LowerStrings,
                   words : WordLists, timeout : CliTimeouts]
  /\ pc = "idle"
  /\ calls = 0
  /\ prev = [result |-> NoResult, expired |-> FALSE]
  /\ now = 0
  /\ candidates = <<>>
  /\ letter_counts = Counter(<<>>)
  /\ words = <<>>
  /\ deadline = 0
  /\ best = [used |-> 0, subset |-> "bestList"]
  /\ bestList = <<>>
  /\ chosen = <<>>
  /\ rem_len = RemLen(<<>>)
  /\ stack = <<>>
  /\ result = NoResult
  /\ output = NoOutput
  /\ seedBest = [used |-> 0, subset |-> <<>>]
  /\ expired = FALSE
  /\ explored = FALSE
  /\ pushed = FALSE

\* ---- find_best_cover: deadline, sort, greedy seed, rem_len, root call ----
Deadline(t, timeout) == t + timeout

\* mutant: the seed loop keeps the last affordable word (no break)
SeedIdx_Last(ws, counts) ==
  LET ok == {k \in DOMAIN ws : canAfford(Counter(ws[k]), counts)}
  IN IF ok = {} THEN 0 ELSE CHOOSE x \in ok : \A y \in ok : x >= y

\* index (1-based) of the first affordable word, 0 if there is none
SeedIdx(ws, counts) ==
  LET ok == {k \in DOMAIN ws : canAfford(Counter(ws[k]), counts)}
  IN IF ok = {} THEN 0 ELSE Min(ok)

\* mutant: the seed word's letters are not removed from the pool
SeedCounts_NoSubtract(ws, counts) == counts

\* the pool after the seed loop
SeedCounts(ws, counts) ==
  LET s == SeedIdx(ws, counts)
  IN IF s = 0 THEN counts ELSE subtract(counts, Counter(ws[s]))

\* chosen0 (and the contents of best["subset"]) after the seed loop
SeedPath(ws, counts) ==
  LET s == SeedIdx(ws, counts)
  IN IF s = 0 THEN <<>> ELSE <<ws[s]>>

\* mutant: the seed records its word but not its length
SeedUsed_Zero(ws, counts) == 0

\* best["used"] after the seed loop
SeedUsed(ws, counts) ==
  LET s == SeedIdx(ws, counts)
  IN IF s = 0 THEN 0 ELSE Len(ws[s])

\* idx of the root call
RootIdx(ws, counts) == 0

Enter(cands, lc, timeout, t) ==
  LET ws == sorted(cands)
      lc2 == SeedCounts(ws, lc)
      used0 == SeedUsed(ws, lc)
      path0 == SeedPath(ws, lc)
  IN /\ now' = t
     /\ deadline' = Deadline(t, timeout)
     /\ candidates' = cands
     /\ words' = ws
     /\ letter_counts' = lc2
     /\ best' = [used |-> used0, subset |-> "bestList"]
     /\ bestList' = path0
     /\ chosen' = path0
     /\ rem_len' = RemLen(ws)
     /\ stack' = <<[idx |-> RootIdx(ws, lc), counts |-> lc2, used |-> used0,
                    i |-> 0, at |-> "entry"]>>
     /\ seedBest' = [used |-> used0, subset |-> path0]
     /\ pc' = "dfs"
     /\ calls' = calls + 1
     /\ prev' = [result |-> result, expired |-> expired]
     /\ result' = NoResult
     /\ output' = NoOutput
     /\ expired' = FALSE
     /\ explored' = FALSE
     /\ pushed' = FALSE
     /\ UNCHANGED argv

\* a caller builds the Counter and calls find_best_cover(words, counts, timeout)
find_best_cover ==
  /\ pc = "idle"
  /\ argv.via = "direct"
  /\ \E t \in Tick(now) :
       Enter(argv.words, Counter(argv.letters), argv.timeout, t)

\* the timeout solve passes to find_best_cover
SolveTimeout(args) == TIMEOUT_SEC

\* main -> solve -> filter_words -> find_best_cover
main ==
  /\ pc = "idle"
  /\ argv.via = "main"
  /\ \E t \in Tick(now) :
       LET letters == upper(argv.letters)
           lc == Counter(letters)
       IN Enter(filter_words(argv.words, lc), lc, SolveTimeout(argv), t)

\* mutant: the second call is handed the Counter object the first call was given
call_again_reuse ==
  /\ pc = "done"
  /\ argv.via = "direct"
  /\ calls = 1
  /\ \E t \in Tick(now) :
       Enter(argv.words, letter_counts, argv.timeout, t)

\* the caller invokes the solver again with the same arguments
call_again ==
  /\ pc = "done"
  /\ argv.via = "direct"
  /\ calls = 1
  /\ \E t \in Tick(now) :
       Enter(argv.words, Counter(argv.letters), argv.timeout, t)

\* ---- dfs ----------------------------------------------------------------
top == stack[Len(stack)]

\* mutant: the deadline test is late by one tick
PastDeadline_Late(t, d) == t > d + 1

\* time.time() > deadline
PastDeadline(t, d) == t > d

\* mutant: the bound leaves out the letters already used
Bounded_NoUsed(used, idx, bestUsed) == rem_len[idx] <= bestUsed

\* used + rem_len[idx] <= best["used"]
Bounded(used, idx, bestUsed) == used + rem_len[idx] <= bestUsed

\* used > best["used"]
Improves(used, bestUsed) == used > bestUsed

\* mutant: best["subset"] = chosen, the path itself and not a copy of it
SnapshotRef_Alias == "chosen"

\* the list object stored in best["subset"] by line 203: chosen.copy()
SnapshotRef == "bestList"

\* the candidate words[i] passes both tests of the loop body
Fits(w, counts) ==
  /\ ~(Len(w) > Total(counts))
  /\ canAfford(Counter(w), counts)

\* mutant: the caller does not pop the word it pushed
Return_NoPop ==
  IF Len(stack) = 1
  THEN /\ stack' = <<>>
       /\ pc' = "done"
       /\ result' = [subset |-> BestSubset, used |-> best.used]
       /\ output' = IF argv.via = "main"
                    THEN [best_set |-> BestSubset,
                          unused |-> Len(upper(argv.letters)) - best.used]
                    ELSE NoOutput
       /\ UNCHANGED chosen
  ELSE /\ stack' = [SubSeq(stack, 1, Len(stack) - 1) EXCEPT
                      ![Len(stack) - 1].i = @ + 1]
       /\ UNCHANGED <<chosen, pc, result, output>>

\* a dfs call returns: the caller pops chosen and moves on, or the root call
\* returns and find_best_cover (and solve, main) finish
Return ==
  IF Len(stack) = 1
  THEN /\ stack' = <<>>
       /\ pc' = "done"
       /\ result' = [subset |-> BestSubset, used |-> best.used]
       /\ output' = IF argv.via = "main"
                    THEN [best_set |-> BestSubset,
                          unused |-> Len(upper(argv.letters)) - best.used]
                    ELSE NoOutput
       /\ UNCHANGED chosen
  ELSE /\ stack' = [SubSeq(stack, 1, Len(stack) - 1) EXCEPT
                      ![Len(stack) - 1].i = @ + 1]
       /\ chosen' = SubSeq(chosen, 1, Len(chosen) - 1)
       /\ UNCHANGED <<pc, result, output>>

dfs_deadline ==
  /\ pc = "dfs"
  /\ top.at = "entry"
  /\ \E t \in Tick(now) :
       /\ PastDeadline(t, deadline)
       /\ now' = t
  /\ expired' = TRUE
  /\ Return
  /\ UNCHANGED <<argv, calls, prev, candidates, letter_counts, words, deadline,
                 best, bestList, rem_len, seedBest, explored, pushed>>

dfs_prune ==
  /\ pc = "dfs"
  /\ top.at = "entry"
  /\ \E t \in Tick(now) :
       /\ ~PastDeadline(t, deadline)
       /\ now' = t
  /\ Bounded(top.used, top.idx, best.used)
  /\ explored' = TRUE
  /\ Return
  /\ UNCHANGED <<argv, calls, prev, candidates, letter_counts, words, deadline,
                 best, bestList, rem_len, seedBest, expired, pushed>>

dfs_visit ==
  /\ pc = "dfs"
  /\ top.at = "entry"
  /\ \E t \in Tick(now) :
       /\ ~PastDeadline(t, deadline)
       /\ now' = t
  /\ ~Bounded(top.used, top.idx, best.used)
  /\ explored' = TRUE
  /\ IF Improves(top.used, best.used)
     THEN /\ best' = [used |-> top.used, subset |-> SnapshotRef]
          /\ bestList' = chosen
     ELSE UNCHANGED <<best, bestList>>
  /\ stack' = [stack EXCEPT ![Len(stack)].at = "loop", ![Len(stack)].i = top.idx]
  /\ UNCHANGED <<argv, pc, calls, prev, candidates, letter_counts, words, deadline,
                 chosen, rem_len, result, output, seedBest, expired, pushed>>

dfs_skip ==
  /\ pc = "dfs"
  /\ top.at = "loop"
  /\ top.i < n
  /\ ~Fits(words[top.i + 1], top.counts)
  /\ stack' = [stack EXCEPT ![Len(stack)].i = @ + 1]
  /\ UNCHANGED <<argv, pc, calls, prev, now, candidates, letter_counts, words,
                 deadline, best, bestList, chosen, rem_len, result, output,
                 seedBest, expired, explored, pushed>>

\* mutant: the recursive call is dfs(i, ...), not dfs(i + 1, ...)
dfs_branch_SameIdx ==
  /\ pc = "dfs"
  /\ top.at = "loop"
  /\ top.i < n
  /\ LET w == words[top.i + 1]
     IN /\ Fits(w, top.counts)
        /\ chosen' = Append(chosen, w)
        /\ stack' = Append(stack, [idx |-> top.i,
                                   counts |-> subtract(top.counts, Counter(w)),
                                   used |-> top.used + Len(w),
                                   i |-> 0, at |-> "entry"])
  /\ pushed' = TRUE
  /\ UNCHANGED <<argv, pc, calls, prev, now, candidates, letter_counts, words,
                 deadline, best, bestList, rem_len, result, output, seedBest,
                 expired, explored>>

dfs_branch ==
  /\ pc = "dfs"
  /\ top.at = "loop"
  /\ top.i < n
  /\ LET w == words[top.i + 1]
     IN /\ Fits(w, top.counts)
        /\ chosen' = Append(chosen, w)
        /\ stack' = Append(stack, [idx |-> top.i + 1,
                                   counts |-> subtract(top.counts, Counter(w)),
                                   used |-> top.used + Len(w),
                                   i |-> 0, at |-> "entry"])
  /\ pushed' = TRUE
  /\ UNCHANGED <<argv, pc, calls, prev, now, candidates, letter_counts, words,
                 deadline, best, bestList, rem_len, result, output, seedBest,
                 expired, explored>>

dfs_return ==
  /\ pc = "dfs"
  /\ top.at = "loop"
  /\ top.i >= n
  /\ Return
  /\ UNCHANGED <<argv, calls, prev, now, candidates, letter_counts, words,
                 deadline, best, bestList, rem_len, seedBest, expired, explored,
                 pushed>>

Next ==
  \/ find_best_cover
  \/ main
  \/ dfs_deadline
  \/ dfs_prune
  \/ dfs_visit
  \/ dfs_skip
  \/ dfs_branch
  \/ dfs_return

Spec == Init /\ [][Next]_vars

InitFair == Init /\ argv.via = "direct"

\* a step of a running call
dfs_step ==
  dfs_deadline \/ dfs_prune \/ dfs_visit \/ dfs_skip \/ dfs_branch \/ dfs_return

\* a direct call, once made, keeps being executed by the interpreter
NextFair == find_best_cover \/ dfs_step

SpecFair == InitFair /\ [][NextFair]_vars /\ WF_vars(dfs_step)

\* direct calls only, the solver invoked a second time on the same input
InitRepeat == Init /\ argv.via = "direct"

NextRepeat ==
  \/ find_best_cover
  \/ call_again
  \/ dfs_deadline
  \/ dfs_prune
  \/ dfs_visit
  \/ dfs_skip
  \/ dfs_branch
  \/ dfs_return

SpecRepeat == InitRepeat /\ [][NextRepeat]_vars

\* ---- what the claims speak about ------------------------------------------
\* the pool handed to find_best_cover, as it was before the call
PoolIn == Counter(upper(argv.letters))

\* the candidate list handed to find_best_cover, as it was before the call
CandsIn ==
  IF argv.via = "direct" THEN argv.words ELSE filter_words(argv.words, PoolIn)

WithinPool(ws, pool) == \A ch \in Letters : Usage(ws)[ch] <= pool[ch]

\* the words of ws at the positions S, in order
RECURSIVE PickSeq(_, _)
PickSeq(ws, S) ==
  IF ws = <<>> THEN <<>>
  ELSE LET rest == PickSeq(SubSeq(ws, 1, Len(ws) - 1), S)
       IN IF Len(ws) \in S THEN Append(rest, ws[Len(ws)]) ELSE rest

Max(S) == CHOOSE x \in S : \A y \in S : x >= y

\* the largest total length of a sub-collection of ws that fits in pool
MaxCover(ws, pool) ==
  Max({SumLen(PickSeq(ws, S)) :
         S \in {T \in SUBSET DOMAIN ws : WithinPool(PickSeq(ws, T), pool)}})

\* ---- claims --------------------------------------------------------------

\* C1: the best subset, at every moment of the search and in the value returned
\* (also when the deadline fired in the middle of the search), uses no letter
\* more often than the pool passed in holds it.
C1_SubMultiset ==
  /\ pc # "idle" => WithinPool(BestSubset, PoolIn)
  /\ pc = "done" => WithinPool(result.subset, PoolIn)

\* a search the deadline cut short after it had improved on the seed
C1_Witness ==
  /\ pc = "done"
  /\ expired
  /\ Len(result.subset) >= 2
  /\ result.used > seedBest.used

\* C2: when every candidate is buildable from the pool and the deadline never
\* fires, the value returned is the largest total length of any sub-collection
\* of the candidate list that fits in the pool.
C2_Optimum ==
  (/\ pc = "done"
   /\ ~expired
   /\ \A k \in DOMAIN CandsIn : WithinPool(<<CandsIn[k]>>, PoolIn))
  => result.used = MaxCover(CandsIn, PoolIn)

\* C3: best["used"] is the total length of the words of best["subset"], in
\* every state of a call and in the pair returned.
C3_Accounting ==
  /\ best.used = SumLen(BestSubset)
  /\ pc = "done" => result.used = SumLen(result.subset)

\* the search has replaced the seed by a longer cover
C3_Witness ==
  /\ pc = "dfs"
  /\ seedBest.used > 0
  /\ best.used > seedBest.used

\* the pair the greedy seed alone would return
SeedResult == [subset |-> seedBest.subset, used |-> seedBest.used]

\* C4 as the spec states it: with timeout 0 or a deadline already in the past
\* the call returns the seed result, no node passes the deadline check, no
\* word is pushed and best is not changed after seeding.
C4_ImmediateDeadline ==
  (pc = "done" /\ argv.via = "direct" /\ argv.timeout <= 0)
  => /\ result = SeedResult
     /\ ~explored
     /\ ~pushed
     /\ best.used = seedBest.used
     /\ BestSubset = seedBest.subset

\* C4, amended: with a deadline already in the past (negative timeout), and
\* whenever the clock reading taken at the root node is later than the
\* deadline (with timeout 0: later than the reading taken at the start), the
\* call returns the seed result and the search explores nothing.  A root
\* reading equal to the deadline passes the test time.time() > deadline.
C4_DeadlinePassedAtRoot ==
  /\ []((pc = "done" /\ argv.via = "direct" /\ argv.timeout < 0)
        => (result = SeedResult /\ ~explored /\ ~pushed))
  /\ [][(pc = "dfs" /\ Len(stack) = 1 /\ top.at = "entry" /\ now' > deadline)
        => /\ pc' = "done"
           /\ result' = SeedResult
           /\ ~explored'
           /\ ~pushed'
           /\ best' = best
           /\ BestSubset' = seedBest.subset]_vars

\* timeout 0, the clock moved on before the root node read it
C4_Witness ==
  /\ pc = "done"
  /\ argv.via = "direct"
  /\ argv.timeout = 0
  /\ seedBest.used > 0
  /\ expired
  /\ ~explored

AT == <<"A", "T">>
TA == <<"T", "A">>
A1 == <<"A">>

\* C5 as the spec states it: pool AAT, candidates [AT, TA, A], ample timeout:
\* two letters used and a one-word subset, [AT] or [TA].
C5_TieOneWord ==
  (/\ pc = "done"
   /\ ~expired
   /\ argv.via = "direct"
   /\ argv.letters = <<"A", "A", "T">>
   /\ argv.words = <<AT, TA, A1>>)
  => /\ result.used = 2
     /\ result.subset \in {<<AT>>, <<TA>>}

\* pool AAT and the candidates AT, TA, A in some order
C5_Input ==
  /\ argv.via = "direct"
  /\ argv.letters = <<"A", "A", "T">>
  /\ Len(argv.words) = 3
  /\ {argv.words[k] : k \in DOMAIN argv.words} = {AT, TA, A1}

\* the first two-letter word in input order
FirstPair(ws) == ws[Min({k \in DOMAIN ws : Len(ws[k]) = 2})]

\* C5, amended: pool AAT, candidates AT, TA, A in any order, ample timeout:
\* three letters used and the two-word subset [AT, A] or [TA, A], the first
\* word being whichever of AT and TA comes first in the input (the sort by
\* descending length is stable).
C5_TieTwoWords ==
  (pc = "done" /\ ~expired /\ C5_Input)
  => result = [subset |-> <<FirstPair(argv.words), A1>>, used |-> 3]

\* the sort had to move A behind the pairs and kept TA before AT
C5_Witness ==
  /\ pc = "done"
  /\ ~expired
  /\ C5_Input
  /\ argv.words = <<A1, TA, AT>>
  /\ result.subset = <<TA, A1>>

\* C6: when find_best_cover has returned, the caller's Counter and the caller's
\* candidate list hold the values they held before the call.
C6_CallerUnchanged ==
  pc = "done" => (letter_counts = PoolIn /\ candidates = CandsIn)

\* C7: two calls on the same pool and the same candidate list, neither cut
\* short by its deadline, return the same pair, whatever the clock readings.
C7_Idempotent ==
  (pc = "done" /\ calls = 2 /\ ~expired /\ ~prev.expired)
  => result = prev.result

\* both calls finished under a deadline one tick away, the clock moved
\* meanwhile, and the search improved on the seed
C7_Witness ==
  /\ pc = "done"
  /\ calls = 2
  /\ ~expired
  /\ ~prev.expired
  /\ argv.timeout = 1
  /\ now > 0
  /\ result.used > seedBest.used

\* C8: if no candidate is buildable from the pool (an empty list and an empty
\* pool included) the call returns the empty subset and 0, for any timeout.
C8_NoFeasible ==
  (pc = "done" /\ \A k \in DOMAIN CandsIn : ~WithinPool(<<CandsIn[k]>>, PoolIn))
  => result = [subset |-> <<>>, used |-> 0]

\* a non-empty pool, a non-empty list of unbuildable words, the loop has run
C8_Witness ==
  /\ pc = "done"
  /\ CandsIn # <<>>
  /\ Total(PoolIn) > 0
  /\ \A k \in DOMAIN CandsIn : ~WithinPool(<<CandsIn[k]>>, PoolIn)
  /\ explored

\* C9: during one call best["used"] never decreases, and best (the value and
\* the contents of the recorded list) changes only when best["used"] strictly
\* increases: pushes and pops on the path do not reach the recorded subset.
C9_Monotone ==
  [][pc = "dfs"
     => /\ best'.used >= best.used
        /\ (best' # best \/ BestSubset' # BestSubset) => best'.used > best.used]_vars

\* the search has improved best and has since popped the path
C9_Witness ==
  /\ pc = "dfs"
  /\ best.used > seedBest.used
  /\ Len(chosen) < Len(BestSubset)

\* C10: run from the command line with --timeout SEC, the search uses the
\* deadline start + SEC.  (At the root's entry, before the root reads the
\* clock, now is still the reading taken at the start.)
C10_CliTimeout ==
  (/\ argv.via = "main"
   /\ pc = "dfs"
   /\ Len(stack) = 1
   /\ top.at = "entry")
  => deadline = now + argv.timeout

\* positions (0-based, in words) of the entries on the current path: the seed,
\* then the loop index at which every active frame made its call
PathIdx ==
  (IF seedBest.subset = <<>> THEN <<>> ELSE <<SeedIdx(words, PoolIn) - 1>>)
  \o [k \in 1..(Len(stack) - 1) |-> stack[k].i]

\* occurrences of w in the list ws
Occurrences(ws, w) == Cardinality({k \in DOMAIN ws : ws[k] = w})

\* C11: on every search path, the pre-pushed seed included, every entry of the
\* ordered candidate list is taken at most once, and the subset returned holds
\* no word more often than the candidate list does.
C11_EachEntryOnce ==
  /\ pc = "dfs" =>
       \A j, k \in DOMAIN PathIdx : j # k => PathIdx[j] # PathIdx[k]
  /\ pc = "done" =>
       \A w \in Dictionary : Occurrences(result.subset, w) <= Occurrences(CandsIn, w)

\* the step is a prune: the innermost node, at its entry, returns although
\* the clock it read is not past the deadline
PruneStep ==
  /\ pc = "dfs"
  /\ top.at = "entry"
  /\ now' <= deadline
  /\ Len(stack') = Len(stack) - 1

\* no choice of candidates at positions >= idx that fits the pool of the
\* frame f brings its path above limit letters
NoBetterExtension(f, limit) ==
  \A S \in SUBSET ((f.idx + 1)..n) :
    WithinPool(PickSeq(words, S), f.counts)
    => f.used + SumLen(PickSeq(words, S)) <= limit

\* C12: rem_len[n] = 0 and rem_len[i] = rem_len[i + 1] + len(words[i]); rem_len
\* is not modified during the search; and whenever a node is pruned, no
\* extension of its path by later candidates that fit its pool has more
\* letters than best["used"] has at that moment.
C12_PruneSound ==
  /\ [](pc = "dfs" =>
          /\ DOMAIN rem_len = 0..n
          /\ rem_len[n] = 0
          /\ \A i \in 0..(n - 1) : rem_len[i] = rem_len[i + 1] + Len(words[i + 1]))
  /\ [][(pc = "dfs" => rem_len' = rem_len)
        /\ (PruneStep => NoBetterExtension(top, best.used))]_vars

\* a node below the root is about to be pruned (the deadline is far) although
\* candidates remain behind its idx
C12_Witness ==
  /\ pc = "dfs"
  /\ argv.timeout = TIMEOUT_SEC
  /\ Len(stack) >= 2
  /\ top.at = "entry"
  /\ rem_len[top.idx] > 0
  /\ top.used + rem_len[top.idx] <= best.used

\* the words of ws of length L, L - 1, ..., 0, each length in input order
RECURSIVE ByLength(_, _)
ByLength(ws, L) ==
  IF L < 0 THEN <<>>
  ELSE SelectSeq(ws, LAMBDA w : Len(w) = L) \o ByLength(ws, L - 1)

LengthDescending(ws) == ByLength(ws, Max({Len(ws[k]) : k \in DOMAIN ws} \cup {0}))

\* the first word of ws, longest first and stable on input order, that the
\* pool can build, as a list of at most one word
FirstBuildable(ws, pool) ==
  LET o == LengthDescending(ws)
      ok == {k \in DOMAIN o : WithinPool(<<o[k]>>, pool)}
  IN IF ok = {} THEN <<>> ELSE <<o[Min(ok)]>>

\* the root call has been made and the root node has not run yet
AtRootEntry == pc = "dfs" /\ Len(stack) = 1 /\ top.at = "entry"

\* C13: the seed is the first word, longest first and stable on input order,
\* that the original pool affords, and only that word: best starts as
\* ([w], len(w)) and the root starts with path [w], used = len(w) and the pool
\* minus w; with no affordable word best starts as ([], 0) and the root starts
\* from the full pool with used = 0.
C13_GreedySeed ==
  AtRootEntry =>
    LET sp == FirstBuildable(CandsIn, PoolIn)
    IN /\ Len(sp) <= 1
       /\ best.used = SumLen(sp)
       /\ BestSubset = sp
       /\ chosen = sp
       /\ top.used = SumLen(sp)
       /\ \A ch \in Letters : top.counts[ch] = PoolIn[ch] - Usage(sp)[ch]

\* the seed is neither the first word handed in nor the first of the sorted
\* list: longer words came first and the pool does not afford them
C13_Witness ==
  /\ AtRootEntry
  /\ chosen # <<>>
  /\ words # CandsIn
  /\ words[1] # chosen[1]
  /\ CandsIn[1] # chosen[1]

\* C14: from the step in which a node sees the clock past the deadline (the
\* clock never runs backwards), best is not modified any more, and the call
\* returns the best recorded at that moment.
C14_AfterDeadline ==
  [][(pc = "dfs" /\ expired')
     => /\ best' = best
        /\ BestSubset' = BestSubset
        /\ pc' = "done" => result' = [subset |-> BestSubset, used |-> best.used]]_vars

\* the deadline fired after the search had improved on the seed, and a node
\* entered since then is about to read the clock
C14_Witness ==
  /\ pc = "dfs"
  /\ expired
  /\ best.used > seedBest.used
  /\ Len(stack) >= 2
  /\ top.at = "entry"

\* the seed path followed by the word every active frame pushed for its call
SeedAndPushes(k) ==
  seedBest.subset \o [j \in 1..(k - 1) |-> words[stack[j].i + 1]]

\* C15: the shared path always is the seed path followed by the words pushed
\* by the frames that are waiting for a call to return.  The path a frame sees
\* thus depends on its callers only: it is the same at the frame's entry,
\* between two of its calls and when it returns (one pop per push, whether the
\* callee returned by deadline, by pruning or at the end of its loop).  At
\* every node used is the total length of the path, and when the root call
\* has returned the path is the seed path.
C15_PathBalanced ==
  /\ pc = "dfs" => /\ chosen = SeedAndPushes(Len(stack))
                   /\ top.used = SumLen(chosen)
  /\ pc = "done" => chosen = seedBest.subset

\* back in the root's loop after a call that returned by deadline
C15_Witness ==
  /\ pc = "dfs"
  /\ Len(stack) = 1
  /\ top.at = "loop"
  /\ top.i > top.idx
  /\ pushed
  /\ expired
  /\ chosen # <<>>

\* C16: in every frame the pool counts are >= 0 and, letter by letter, the
\* pool plus the occurrences in the words on the frame's path give the count
\* in the original pool; no step changes the pool of a frame that stays on the
\* stack, so every sibling of one frame is tested against the same pool.
C16_PoolConservation ==
  /\ [](pc = "dfs" =>
          \A k \in DOMAIN stack : \A ch \in Letters :
            /\ stack[k].counts[ch] >= 0
            /\ stack[k].counts[ch] + Usage(SeedAndPushes(k))[ch] = PoolIn[ch])
  /\ [][(pc = "dfs" /\ pc' = "dfs")
        => \A k \in DOMAIN stack \cap DOMAIN stack' :
             stack'[k].counts = stack[k].counts]_vars

\* a call made by the root for a later sibling, after the seed, is running
C16_Witness ==
  /\ pc = "dfs"
  /\ seedBest.used > 0
  /\ Len(stack) >= 2
  /\ stack[1].i > stack[1].idx
  /\ Total(top.counts) < Total(stack[1].counts)

NonIncreasingLen(ws) == \A j \in 1..(Len(ws) - 1) : Len(ws[j]) >= Len(ws[j + 1])

\* the words of sub are found in ws at positions from, from + 1, ... that
\* never go back (a position may be used again)
RECURSIVE Embeds(_, _, _)
Embeds(sub, ws, from) ==
  IF sub = <<>> THEN TRUE
  ELSE LET c == {p \in from..Len(ws) : ws[p] = Head(sub)}
       IN c # {} /\ Embeds(Tail(sub), ws, Min(c))

\* C18: the positions in the length-sorted candidate list of the words on the
\* path never decrease (seed first, then the picks of the DFS), the list
\* returned is laid out in that order, and so its word lengths never increase
\* from first to last, for every input and every timeout.
C18_SortedOrder ==
  /\ pc = "dfs" =>
       /\ \A j, k \in DOMAIN PathIdx : j < k => PathIdx[j] <= PathIdx[k]
       /\ NonIncreasingLen(BestSubset)
  /\ pc = "done" =>
       /\ NonIncreasingLen(result.subset)
       /\ Embeds(result.subset, LengthDescending(CandsIn), 1)

\* the deadline cut the search short; the list returned has a longer word
\* before a shorter one and the input was not in sorted order
C18_Witness ==
  /\ pc = "done"
  /\ expired
  /\ words # CandsIn
  /\ Len(result.subset) >= 2
  /\ Len(result.subset[1]) > Len(result.subset[2])

TypeOK ==
  /\ pc \in {"idle", "dfs", "done"}
  /\ now \in 0..MaxClock
  /\ calls \in {0, 1, 2}

====
